---- MODULE Spec2Model ----
(***************************************************************************)
(* Model of the real-time fan-out core of internal/api: the subscriber     *)
(* registry (apiHandler.subscribers guarded by apiHandler.mu), the         *)
(* connection lifecycle (handleSubscribe), the broadcast (notifyClients)   *)
(* and the two event producers (handleCreateRoomMessage,                   *)
(* handleReactToMessage).                                                  *)
(*                                                                         *)
(* Connections are numbered in the order their subscribe requests arrive,  *)
(* events in the order their producing requests run.  A *websocket.Conn is *)
(* identified with its connection number, and the CancelFunc stored beside *)
(* it with the context it cancels (ctxDone of that connection).            *)
(***************************************************************************)
EXTENDS Integers, Sequences, FiniteSets, TLC

\* ---------------------------------------------------------------- bounds
MaxConns == 2
MaxEvents == 2
NumRooms == 2

Conns == 1..MaxConns
Events == 1..MaxEvents
Rooms == 1..NumRooms

\* The mutex value when no goroutine holds it.
Free == 0

\* The rawRoomID readRoom returns when it fails (the empty string), and the
\* RoomID of a call that was never made.
NoRoom == 0

\* dCur when no WriteJSON is in progress.
NoConn == 0

VARIABLES
    pc,           \* position of each connection's handleSubscribe
    connRoom,     \* rawRoomID of each subscribe request
    acceptErr,    \* the http.Error a subscribe request was answered with
    ctxDone,      \* ctx.Done() of each connection is closed
    subscribers,  \* h.subscribers: room key -> set of connections
    mu,           \* h.mu: Free, or the event whose notifyClients holds it
    req,          \* outcome of each producing request
    reqRoom,      \* rawRoomID of each producing request
    dpc,          \* position of each notifyClients goroutine
    dRoom,        \* msg.RoomID of each notifyClients call
    dOk,          \* notifyClients' local ok: the room key was present
    dSnap,        \* history: the room's set when notifyClients took the lock
    dVisited,     \* connections the range loop has already produced
    dCur,         \* connection whose WriteJSON is in progress
    wlog,         \* history: per connection, the WriteJSON calls <<event, ok>>
    cancels,      \* history: per connection, the events whose dispatch called cancel()
    lockSeq       \* history: the events in the order their notifyClients took the lock

vars == <<pc, connRoom, acceptErr, ctxDone, subscribers, mu, req, reqRoom, dpc,
          dRoom, dOk, dSnap, dVisited, dCur, wlog, cancels, lockSeq>>

connVars == <<pc, connRoom, acceptErr>>
dispVars == <<dpc, dRoom, dOk, dSnap, dVisited, dCur>>
reqVars == <<req, reqRoom>>
histVars == <<wlog, cancels, lockSeq>>

\* ------------------------------------------------------------ the registry

\* make(map[string]map[*websocket.Conn]context.CancelFunc)
EmptyRegistry == [r \in {} |-> {}]

\* The connections stored under a room key (the empty set for an absent key).
SetOf(subs, room) == IF room \in DOMAIN subs THEN subs[room] ELSE {}

\* The room keys under which a connection is stored.
RoomsOf(subs, c) == {r \in DOMAIN subs : c \in subs[r]}

InRegistry(c) == RoomsOf(subscribers, c) # {}


\* Variant of RegisterEntry: the connection is stored under every room key of
\* the map, not only under its own.
RegisterEntryEveryRoom(subs, room, c) ==
    [r \in DOMAIN subs \cup {room} |-> SetOf(subs, r) \cup {c}]

\* Variant of RegisterEntry: the room's set is made anew on every
\* registration (the `if !ok` test around make is missing).
RegisterEntryFreshSet(subs, room, c) ==
    [r \in DOMAIN subs \cup {room} |-> IF r = room THEN {c} ELSE subs[r]]

\* Lines 140-144 of handleSubscribe: create the room's set when the key is
\* missing, then store the connection (with its cancel) under the room.
RegisterEntry(subs, room, c) ==
    [r \in DOMAIN subs \cup {room} |->
        IF r = room THEN SetOf(subs, r) \cup {c} ELSE subs[r]]

\* Variant of DeleteEntry: the delete is missing.
DeleteEntryMissing(subs, room, c) == subs

\* Line 150 of handleSubscribe: delete(h.subscribers[rawRoomID], c).  The key
\* stays in the outer map; deleting from the nil map of an absent key is a no-op.
DeleteEntry(subs, room, c) ==
    [r \in DOMAIN subs |-> IF r = room THEN subs[r] \ {c} ELSE subs[r]]

\* Variant of CanLock: no mutual exclusion (the Lock calls are missing).
CanLockAlways(m) == TRUE

\* h.mu.Lock() returns only when no goroutine holds the mutex.
CanLock(m) == m = Free

\* Variant of Targets: the loop runs over the connections of every room,
\* whatever msg.RoomID is.
TargetsEveryRoom(subs, room) ==
    UNION {subs[r] : r \in DOMAIN subs}

\* Lines 158-163 of notifyClients: the connections the range loop runs over;
\* none when the key is absent or its set is empty (the early return).
Targets(subs, room) ==
    IF room \notin DOMAIN subs \/ Cardinality(subs[room]) = 0
    THEN {}
    ELSE subs[room]

\* ------------------------------------------------------- handleSubscribe

\* Variant of SubscribeEntry: the return after the failed upgrade is missing.
SubscribeEntryNoReturn(roomOk, upgradeOk) ==
    IF ~roomOk THEN [pc |-> "returned", err |-> "room"]
    ELSE IF ~upgradeOk THEN [pc |-> "lockReg", err |-> "upgrade"]
    ELSE [pc |-> "lockReg", err |-> "none"]

\* Lines 123-134: readRoom, then the websocket upgrade.  Either failure answers
\* with http.Error and returns; otherwise the handler goes on to register.
SubscribeEntry(roomOk, upgradeOk) ==
    IF ~roomOk THEN [pc |-> "returned", err |-> "room"]
    ELSE IF ~upgradeOk THEN [pc |-> "returned", err |-> "upgrade"]
    ELSE [pc |-> "lockReg", err |-> "none"]

\* Connections that have entered handleSubscribe.
Arrived == {c \in Conns : pc[c] # "idle"}

\* Lines 122-138: a subscribe request arrives and runs up to h.mu.Lock().
SubscribeBegin(c) ==
    /\ pc[c] = "idle"
    /\ \A b \in Conns : b < c => pc[b] # "idle"
    /\ \E room \in Rooms, roomOk \in BOOLEAN, upgradeOk \in BOOLEAN :
        LET e == SubscribeEntry(roomOk, upgradeOk) IN
        /\ pc' = [pc EXCEPT ![c] = e.pc]
        /\ acceptErr' = [acceptErr EXCEPT ![c] = e.err]
        /\ connRoom' = [connRoom EXCEPT ![c] = IF roomOk THEN room ELSE NoRoom]
    /\ UNCHANGED <<ctxDone, subscribers, mu, reqVars, dispVars, histVars>>

\* Variant of Register: a new subscriber is first sent the events already
\* dispatched to its room (a backlog kept for late joiners).
RegisterWithReplay(c) ==
    /\ pc[c] = "lockReg"
    /\ CanLock(mu)
    /\ subscribers' = RegisterEntry(subscribers, connRoom[c], c)
    /\ pc' = [pc EXCEPT ![c] = "wait"]
    /\ LET past == {e \in Events : dpc[e] = "done" /\ dRoom[e] = connRoom[c]} IN
       wlog' = [wlog EXCEPT ![c] =
                   IF past = {} THEN @ ELSE Append(@, <<CHOOSE e \in past : TRUE, TRUE>>)]
    /\ UNCHANGED <<connRoom, acceptErr, ctxDone, mu, reqVars, dispVars, cancels, lockSeq>>

\* Lines 139-145: lock, add the connection to the room, unlock.
Register(c) ==
    /\ pc[c] = "lockReg"
    /\ CanLock(mu)
    /\ subscribers' = RegisterEntry(subscribers, connRoom[c], c)
    /\ pc' = [pc EXCEPT ![c] = "wait"]
    /\ UNCHANGED <<connRoom, acceptErr, ctxDone, mu, reqVars, dispVars, histVars>>

\* Line 138: ctx is derived from r.Context(), so it is done as soon as the
\* request's own context is.
RequestContextDone(c) ==
    /\ pc[c] \in {"lockReg", "wait"}
    /\ ~ctxDone[c]
    /\ ctxDone' = [ctxDone EXCEPT ![c] = TRUE]
    /\ UNCHANGED <<connVars, subscribers, mu, reqVars, dispVars, histVars>>

\* Lines 146-151: <-ctx.Done() returns, then lock, delete, unlock.
Unregister(c) ==
    /\ pc[c] = "wait"
    /\ ctxDone[c]
    /\ CanLock(mu)
    /\ subscribers' = DeleteEntry(subscribers, connRoom[c], c)
    /\ pc' = [pc EXCEPT ![c] = "close"]
    /\ UNCHANGED <<connRoom, acceptErr, ctxDone, mu, reqVars, dispVars, histVars>>

\* Line 135 (defer c.Close()), run when handleSubscribe returns at line 152.
Close(c) ==
    /\ pc[c] = "close"
    /\ pc' = [pc EXCEPT ![c] = "closed"]
    /\ UNCHANGED <<connRoom, acceptErr, ctxDone, subscribers, mu, reqVars,
                   dispVars, histVars>>

\* ------------------------------------------------------------ producers

\* Lines 237-260 of handleCreateRoomMessage and 305-323 of handleReactToMessage:
\* the checks a producing request passes before it answers and dispatches.
\* readRoom first, then the message id (react) or the JSON body (create), then
\* the store write.
RequestOutcome(kind, roomOk, idOk, bodyOk, writeOk) ==
    IF ~roomOk THEN "roomErr"
    ELSE IF kind = "react" /\ ~idOk THEN "idErr"
    ELSE IF kind = "create" /\ ~bodyOk THEN "jsonErr"
    ELSE IF ~writeOk THEN "storeErr"
    ELSE IF kind = "create" THEN "created" ELSE "reacted"

\* Variant of Dispatches: the handler goes on to `go h.notifyClients(...)`
\* after an error too (a return after http.Error is missing).
DispatchesAlways(outcome) == TRUE

\* The requests that reach `go h.notifyClients(...)` (lines 268, 330).
Dispatches(outcome) == outcome \in {"created", "reacted"}

\* Variant of HandleRequest: notifyClients is called without `go`, so the
\* handler needs the mutex before it can return.
HandleRequestSync(e) ==
    /\ req[e] = "none"
    /\ \A b \in Events : b < e => req[b] # "none"
    /\ \E kind \in {"create", "react"}, room \in Rooms,
          roomOk \in BOOLEAN, idOk \in BOOLEAN, bodyOk \in BOOLEAN, writeOk \in BOOLEAN :
        LET out == RequestOutcome(kind, roomOk, idOk, bodyOk, writeOk) IN
        /\ Dispatches(out) => CanLock(mu)
        /\ req' = [req EXCEPT ![e] = out]
        /\ reqRoom' = [reqRoom EXCEPT ![e] = IF roomOk THEN room ELSE NoRoom]
        /\ IF Dispatches(out)
           THEN /\ dpc' = [dpc EXCEPT ![e] = "lock"]
                /\ dRoom' = [dRoom EXCEPT ![e] = room]
           ELSE UNCHANGED <<dpc, dRoom>>
    /\ UNCHANGED <<connVars, ctxDone, subscribers, mu, dOk, dSnap, dVisited, dCur,
                   histVars>>

\* Lines 237-276 and 305-338: one producing request, from readRoom to its
\* return.  The handler never touches the registry or the mutex itself; on
\* success it answers and starts notifyClients in a goroutine of its own.
HandleRequest(e) ==
    /\ req[e] = "none"
    /\ \A b \in Events : b < e => req[b] # "none"
    /\ \E kind \in {"create", "react"}, room \in Rooms,
          roomOk \in BOOLEAN, idOk \in BOOLEAN, bodyOk \in BOOLEAN, writeOk \in BOOLEAN :
        LET out == RequestOutcome(kind, roomOk, idOk, bodyOk, writeOk) IN
        /\ req' = [req EXCEPT ![e] = out]
        /\ reqRoom' = [reqRoom EXCEPT ![e] = IF roomOk THEN room ELSE NoRoom]
        /\ IF Dispatches(out)
           THEN /\ dpc' = [dpc EXCEPT ![e] = "lock"]
                /\ dRoom' = [dRoom EXCEPT ![e] = room]
           ELSE UNCHANGED <<dpc, dRoom>>
    /\ UNCHANGED <<connVars, ctxDone, subscribers, mu, dOk, dSnap, dVisited, dCur,
                   histVars>>

\* ---------------------------------------------------------- notifyClients

\* Lines 155-158: take the lock, look the room up.
NotifyLock(e) ==
    /\ dpc[e] = "lock"
    /\ CanLock(mu)
    /\ mu' = e
    /\ dpc' = [dpc EXCEPT ![e] = "run"]
    /\ dOk' = [dOk EXCEPT ![e] = dRoom[e] \in DOMAIN subscribers]
    /\ dSnap' = [dSnap EXCEPT ![e] = SetOf(subscribers, dRoom[e])]
    /\ lockSeq' = Append(lockSeq, e)
    /\ UNCHANGED <<connVars, ctxDone, subscribers, reqVars, dRoom, dVisited, dCur,
                   wlog, cancels>>

\* Lines 163-164: the range loop produces the next connection and WriteJSON
\* is called on it.
NotifySend(e) ==
    /\ dpc[e] = "run"
    /\ \E c \in Targets(subscribers, dRoom[e]) \ dVisited[e] :
        /\ dCur' = [dCur EXCEPT ![e] = c]
        /\ dVisited' = [dVisited EXCEPT ![e] = @ \cup {c}]
    /\ dpc' = [dpc EXCEPT ![e] = "send"]
    /\ UNCHANGED <<connVars, ctxDone, subscribers, mu, reqVars, dRoom, dOk, dSnap,
                   histVars>>

\* Variant of NotifySent: a write error ends the loop (return after cancel()).
NotifySentStopOnError(e) ==
    /\ dpc[e] = "send"
    /\ \E ok \in BOOLEAN :
        LET c == dCur[e] IN
        /\ wlog' = [wlog EXCEPT ![c] = Append(@, <<e, ok>>)]
        /\ IF ok
           THEN /\ UNCHANGED <<cancels, ctxDone, mu>>
                /\ dpc' = [dpc EXCEPT ![e] = "run"]
           ELSE /\ cancels' = [cancels EXCEPT ![c] = Append(@, e)]
                /\ ctxDone' = [ctxDone EXCEPT ![c] = TRUE]
                /\ dpc' = [dpc EXCEPT ![e] = "done"]
                /\ mu' = Free
    /\ dCur' = [dCur EXCEPT ![e] = NoConn]
    /\ UNCHANGED <<connVars, subscribers, reqVars, dRoom, dOk, dSnap, dVisited, lockSeq>>

\* Variant of NotifySent: cancel() is called only while the context is not
\* done yet.
NotifySentCancelOnce(e) ==
    /\ dpc[e] = "send"
    /\ \E ok \in BOOLEAN :
        LET c == dCur[e] IN
        /\ wlog' = [wlog EXCEPT ![c] = Append(@, <<e, ok>>)]
        /\ IF ok \/ ctxDone[c]
           THEN UNCHANGED <<cancels, ctxDone>>
           ELSE /\ cancels' = [cancels EXCEPT ![c] = Append(@, e)]
                /\ ctxDone' = [ctxDone EXCEPT ![c] = TRUE]
    /\ dpc' = [dpc EXCEPT ![e] = "run"]
    /\ dCur' = [dCur EXCEPT ![e] = NoConn]
    /\ UNCHANGED <<connVars, subscribers, mu, reqVars, dRoom, dOk, dSnap, dVisited,
                   lockSeq>>

\* Variant of NotifySent: a write error also deletes the connection from the
\* room's set.
NotifySentEagerDelete(e) ==
    /\ dpc[e] = "send"
    /\ \E ok \in BOOLEAN :
        LET c == dCur[e] IN
        /\ wlog' = [wlog EXCEPT ![c] = Append(@, <<e, ok>>)]
        /\ IF ok
           THEN UNCHANGED <<cancels, ctxDone, subscribers>>
           ELSE /\ cancels' = [cancels EXCEPT ![c] = Append(@, e)]
                /\ ctxDone' = [ctxDone EXCEPT ![c] = TRUE]
                /\ subscribers' = DeleteEntry(subscribers, dRoom[e], c)
    /\ dpc' = [dpc EXCEPT ![e] = "run"]
    /\ dCur' = [dCur EXCEPT ![e] = NoConn]
    /\ UNCHANGED <<connVars, mu, reqVars, dRoom, dOk, dSnap, dVisited, lockSeq>>

\* Lines 164-167: WriteJSON returns; on an error the connection's cancel is
\* called (a CancelFunc does nothing after its first call).  The loop goes on.
NotifySent(e) ==
    /\ dpc[e] = "send"
    /\ \E ok \in BOOLEAN :
        LET c == dCur[e] IN
        /\ wlog' = [wlog EXCEPT ![c] = Append(@, <<e, ok>>)]
        /\ IF ok
           THEN UNCHANGED <<cancels, ctxDone>>
           ELSE /\ cancels' = [cancels EXCEPT ![c] = Append(@, e)]
                /\ ctxDone' = [ctxDone EXCEPT ![c] = TRUE]
    /\ dpc' = [dpc EXCEPT ![e] = "run"]
    /\ dCur' = [dCur EXCEPT ![e] = NoConn]
    /\ UNCHANGED <<connVars, subscribers, mu, reqVars, dRoom, dOk, dSnap, dVisited,
                   lockSeq>>

\* Variant of NotifyReturn: the function returns without Unlock (the defer at
\* line 156 is missing).
NotifyReturnKeepsLock(e) ==
    /\ dpc[e] = "run"
    /\ Targets(subscribers, dRoom[e]) \ dVisited[e] = {}
    /\ dpc' = [dpc EXCEPT ![e] = "done"]
    /\ UNCHANGED <<connVars, ctxDone, subscribers, mu, reqVars, dRoom, dOk, dSnap,
                   dVisited, dCur, histVars>>

\* Lines 156, 159-161, 169: the early return or the end of the loop; the
\* deferred Unlock runs.
NotifyReturn(e) ==
    /\ dpc[e] = "run"
    /\ Targets(subscribers, dRoom[e]) \ dVisited[e] = {}
    /\ dpc' = [dpc EXCEPT ![e] = "done"]
    /\ mu' = Free
    /\ UNCHANGED <<connVars, ctxDone, subscribers, reqVars, dRoom, dOk, dSnap,
                   dVisited, dCur, histVars>>

\* ------------------------------------------------------------ the system

\* NewHandler (lines 70-76): an empty registry and an unlocked mutex; no
\* request has arrived.
Init ==
    /\ pc = [c \in Conns |-> "idle"]
    /\ connRoom = [c \in Conns |-> NoRoom]
    /\ acceptErr = [c \in Conns |-> "none"]
    /\ ctxDone = [c \in Conns |-> FALSE]
    /\ subscribers = EmptyRegistry
    /\ mu = Free
    /\ req = [e \in Events |-> "none"]
    /\ reqRoom = [e \in Events |-> NoRoom]
    /\ dpc = [e \in Events |-> "none"]
    /\ dRoom = [e \in Events |-> NoRoom]
    /\ dOk = [e \in Events |-> FALSE]
    /\ dSnap = [e \in Events |-> {}]
    /\ dVisited = [e \in Events |-> {}]
    /\ dCur = [e \in Events |-> NoConn]
    /\ wlog = [c \in Conns |-> <<>>]
    /\ cancels = [c \in Conns |-> <<>>]
    /\ lockSeq = <<>>

Next ==
    \/ \E c \in Conns : SubscribeBegin(c)
    \/ \E c \in Conns : Register(c)
    \/ \E c \in Conns : RequestContextDone(c)
    \/ \E c \in Conns : Unregister(c)
    \/ \E c \in Conns : Close(c)
    \/ \E e \in Events : HandleRequest(e)
    \/ \E e \in Events : NotifyLock(e)
    \/ \E e \in Events : NotifySend(e)
    \/ \E e \in Events : NotifySent(e)
    \/ \E e \in Events : NotifyReturn(e)

Spec == Init /\ [][Next]_vars

\* What the Go runtime guarantees: a goroutine that can run does run, and
\* sync.Mutex hands the lock to a goroutine that keeps waiting for it
\* (starvation mode).  When a request arrives, when the request's context ends
\* and when a WriteJSON on the network returns is not the scheduler's to decide.
Scheduling ==
    /\ \A c \in Conns : SF_vars(Register(c)) /\ SF_vars(Unregister(c)) /\ WF_vars(Close(c))
    /\ \A e \in Events :
        SF_vars(NotifyLock(e)) /\ WF_vars(NotifySend(e)) /\ WF_vars(NotifyReturn(e))

FairSpec == Spec /\ Scheduling

\* Every goroutine that can keep running does run, and every WriteJSON
\* returns, with or without an error.  Weak fairness is all that is assumed
\* of the mutex here.
Progress ==
    /\ \A c \in Conns : WF_vars(Register(c)) /\ WF_vars(Unregister(c)) /\ WF_vars(Close(c))
    /\ \A e \in Events :
        /\ WF_vars(NotifyLock(e)) /\ WF_vars(NotifySend(e))
        /\ WF_vars(NotifySent(e)) /\ WF_vars(NotifyReturn(e))

LiveSpec == Spec /\ Progress

\* ------------------------------------------------------------- properties

\* The positions in a connection's write log that belong to an event.
WritesOf(e, c) == {i \in 1..Len(wlog[c]) : wlog[c][i][1] = e}

\* The number of WriteJSON calls the dispatch of e has made on c.
Attempts(e, c) == Cardinality(WritesOf(e, c))

\* The number of cancel() calls the dispatch of e has made on c.
CancelCalls(e, c) == Cardinality({i \in 1..Len(cancels[c]) : cancels[c][i] = e})

\* C1: a dispatch to a room with N >= 1 registered subscribers attempts
\* exactly N sends, one on each handle registered when it took the lock and
\* none on any other, whether or not some of the sends failed.
C1_OneSendPerSubscriber ==
    \A e \in Events :
        (dpc[e] = "done" /\ dSnap[e] # {}) =>
            \A c \in Conns : Attempts(e, c) = IF c \in dSnap[e] THEN 1 ELSE 0

\* A finished dispatch to a room of two subscribers whose send failed on one
\* and succeeded on the other.
C1_Witness ==
    \E e \in Events, c1 \in Conns, c2 \in Conns :
        /\ dpc[e] = "done"
        /\ c1 # c2
        /\ dSnap[e] = {c1, c2}
        /\ wlog[c1] = << <<e, FALSE>> >>
        /\ wlog[c2] = << <<e, TRUE>> >>

\* C2: a dispatch to a room without subscribers makes no send and no cancel
\* call and has nothing left to do but return, the same for an absent room key
\* (dOk false) and for a key that maps to an empty set (dOk true).
C2_EmptyRoomNoSends ==
    \A e \in Events :
        (dpc[e] \in {"run", "send", "done"} /\ dSnap[e] = {}) =>
            /\ dpc[e] # "send"
            /\ dpc[e] = "run" => Targets(subscribers, dRoom[e]) \ dVisited[e] = {}
            /\ \A c \in Conns : Attempts(e, c) = 0 /\ CancelCalls(e, c) = 0

\* Two finished dispatches without subscribers: one found no key for its room,
\* the other the empty set a room keeps after its last subscriber unregistered.
C2_Witness ==
    \E e1 \in Events, e2 \in Events, c \in Conns :
        /\ dpc[e1] = "done" /\ dSnap[e1] = {} /\ ~dOk[e1]
        /\ dpc[e2] = "done" /\ dSnap[e2] = {} /\ dOk[e2]
        /\ connRoom[c] = dRoom[e2]
        /\ pc[c] = "closed"

\* C3: every send of an event for room R goes to a connection that subscribed
\* to R and is registered under R; a connection of another room, or one that
\* is not registered, gets no send attempt.
C3_SendsOnlyToOwnRoom ==
    /\ \A c \in Conns : \A i \in 1..Len(wlog[c]) :
        /\ connRoom[c] = dRoom[wlog[c][i][1]]
        /\ c \in dSnap[wlog[c][i][1]]
    /\ \A e \in Events :
        dpc[e] = "send" =>
            /\ connRoom[dCur[e]] = dRoom[e]
            /\ dCur[e] \in SetOf(subscribers, dRoom[e])
    /\ \A c \in Conns : pc[c] \in {"idle", "returned", "lockReg"} => wlog[c] = <<>>

\* A dispatch has sent to the subscriber of its room while a connection is
\* registered under another room and has received nothing.
C3_Witness ==
    \E e \in Events, a \in Conns, b \in Conns :
        /\ dpc[e] = "run"
        /\ dVisited[e] = {a}
        /\ Attempts(e, a) = 1
        /\ connRoom[b] # dRoom[e]
        /\ b \in SetOf(subscribers, connRoom[b])
        /\ wlog[b] = <<>>

\* C4: a subscriber handle is in at most one room's set.
C4_AtMostOneRoom ==
    \A c \in Conns : Cardinality(RoomsOf(subscribers, c)) <= 1

\* Both room keys exist, one connection is registered and another has
\* registered and unregistered.
C4_Witness ==
    \E a \in Conns, b \in Conns :
        /\ DOMAIN subscribers = Rooms
        /\ Cardinality(RoomsOf(subscribers, a)) = 1
        /\ connRoom[b] # connRoom[a]
        /\ pc[b] = "closed"
        /\ wlog[b] # <<>>

\* The events whose write on a connection failed, in the order of the writes.
FailedWrites(c) ==
    LET f == SelectSeq(wlog[c], LAMBDA w : ~w[2])
    IN [i \in 1..Len(f) |-> f[i][1]]

\* C5 as stated: once a send on a handle has failed, its cancel has been
\* called exactly once, whatever dispatches follow before it unregisters.
C5_CancelCalledOnce ==
    \A c \in Conns : FailedWrites(c) # <<>> => Len(cancels[c]) = 1

\* C5 as amended: cancel is called once for every failed send, by the dispatch
\* whose send failed, so a later dispatch that runs before the handle is
\* unregistered and fails too calls it again; the handle's context is done
\* from the first call on and stays done, so the repeated call signals nothing
\* new.
C5_CancelPerFailedSend ==
    /\ [](\A c \in Conns :
            /\ cancels[c] = FailedWrites(c)
            /\ \A e \in Events : CancelCalls(e, c) <= 1
            /\ cancels[c] # <<>> => ctxDone[c])
    /\ [][\A c \in Conns : ctxDone[c] => ctxDone'[c]]_vars

\* Two dispatches have failed on a handle that is still registered: its cancel
\* has been called twice.
C5_Witness ==
    \E c \in Conns :
        /\ Len(cancels[c]) = 2
        /\ pc[c] = "wait"
        /\ c \in SetOf(subscribers, connRoom[c])

\* C6 as stated: once a handle's cancellation has fired (a send on it has
\* failed), no later send is attempted on it.
C6_NoSendAfterCancel ==
    \A c \in Conns : \A i \in 1..Len(wlog[c]) :
        ~wlog[c][i][2] => i = Len(wlog[c])

\* A connection whose lifecycle has run its delete (line 150).
Unregistered(c) == pc[c] \in {"close", "closed"}

\* C6 as amended: once a handle is unregistered no send is attempted on it any
\* more and no dispatch that takes the lock finds it, and every finished
\* dispatch has sent to each subscriber that was registered when it took the lock.
C6_NoSendAfterUnregister ==
    [][/\ \A c \in Conns : Unregistered(c) => wlog'[c] = wlog[c]
       /\ \A e \in Events :
            (dpc[e] = "lock" /\ dpc'[e] = "run") =>
                \A c \in Conns : Unregistered(c) => c \notin dSnap'[e]
       /\ \A e \in Events :
            dpc'[e] = "done" =>
                \A c \in dSnap'[e] : \E i \in 1..Len(wlog'[c]) : wlog'[c][i][1] = e
      ]_vars

\* A handle failed in one dispatch and left; the next dispatch to the room
\* sent to the remaining subscriber only.
C6_Witness ==
    \E a \in Conns, b \in Conns, e1 \in Events, e2 \in Events :
        /\ a # b /\ e1 # e2
        /\ pc[a] = "closed"
        /\ wlog[a] = << <<e1, FALSE>> >>
        /\ wlog[b] = << <<e1, TRUE>>, <<e2, TRUE>> >>
        /\ dpc[e2] = "done"
        /\ dSnap[e2] = {b}

\* C7: no step of a dispatch changes the registry, and a handle leaves the
\* registry only by the unregister step of its own handleSubscribe.
C7_DispatchLeavesRegistry ==
    [][/\ (dpc' # dpc \/ wlog' # wlog \/ cancels' # cancels) => subscribers' = subscribers
       /\ \A c \in Conns :
            (RoomsOf(subscribers, c) # {} /\ RoomsOf(subscribers', c) = {}) =>
                (pc[c] = "wait" /\ pc'[c] = "close")
      ]_vars

\* A finished dispatch failed on a handle, which is still in its room's set.
C7_Witness ==
    \E e \in Events, c \in Conns :
        /\ dpc[e] = "done"
        /\ wlog[c] = << <<e, FALSE>> >>
        /\ cancels[c] = <<e>>
        /\ c \in SetOf(subscribers, connRoom[c])

\* The lifecycle state of a connection: 0 Connecting, 1 Subscribed,
\* 2 Terminating, 3 Closed (or turned away before it subscribed).
Phase(p, done) ==
    CASE p \in {"idle", "lockReg"} -> 0
      [] p = "wait" /\ ~done -> 1
      [] p = "wait" /\ done -> 2
      [] p = "close" -> 2
      [] p \in {"closed", "returned"} -> 3

\* C8: a connection only moves forward through its lifecycle states; Closed is
\* final, and a closed connection's handle is not in the registry.
C8_ForwardAndClosedGone ==
    /\ [](\A c \in Conns : pc[c] = "closed" => RoomsOf(subscribers, c) = {})
    /\ [][\A c \in Conns :
            /\ Phase(pc'[c], ctxDone'[c]) >= Phase(pc[c], ctxDone[c])
            /\ pc[c] = "closed" => (pc'[c] = "closed" /\ RoomsOf(subscribers', c) = {})
         ]_vars

\* A connection was subscribed, received an event, was cancelled and is
\* closed, and a later dispatch to its room has finished without it.
C8_Witness ==
    \E c \in Conns, e1 \in Events, e2 \in Events :
        /\ pc[c] = "closed"
        /\ wlog[c] = << <<e1, FALSE>> >>
        /\ lockSeq = <<e1, e2>>
        /\ dRoom[e2] = connRoom[c]
        /\ dpc[e2] = "done"

\* C9: a subscribe request whose room lookup or websocket upgrade failed has
\* returned, its connection is in no room's set and gets no send, and the step
\* that turned it away left the registry as it was.
C9_RejectedNeverRegistered ==
    /\ [](\A c \in Conns :
            acceptErr[c] # "none" =>
                (pc[c] = "returned" /\ RoomsOf(subscribers, c) = {} /\ wlog[c] = <<>>))
    /\ [][\A c \in Conns :
            (acceptErr[c] = "none" /\ acceptErr'[c] # "none") => subscribers' = subscribers
         ]_vars

\* One request failed the room lookup, another the upgrade, after a dispatch
\* to the second one's room.
C9_Witness ==
    \E a \in Conns, b \in Conns, e \in Events :
        /\ acceptErr[a] = "room"
        /\ acceptErr[b] = "upgrade"
        /\ dpc[e] = "done"
        /\ dRoom[e] = connRoom[b]

\* The connection received the event (its WriteJSON succeeded).
Received(c, e) == \E i \in 1..Len(wlog[c]) : wlog[c][i] = <<e, TRUE>>

\* The connection received e1 before e2.
ReceivedBefore(c, e1, e2) ==
    \E i \in 1..Len(wlog[c]), j \in 1..Len(wlog[c]) :
        i < j /\ wlog[c][i] = <<e1, TRUE>> /\ wlog[c][j] = <<e2, TRUE>>

\* C10 as stated: events are numbered in the order their producers invoked
\* the dispatch; a subscriber that receives two events of a room receives the
\* one invoked first before the other.
C10_InvocationOrder ==
    \A c \in Conns, e1 \in Events, e2 \in Events :
        (e1 < e2 /\ dRoom[e1] = dRoom[e2] /\ Received(c, e1) /\ Received(c, e2)) =>
            ReceivedBefore(c, e1, e2)

\* C10 as amended: a subscriber that receives two events receives them in the
\* order in which their dispatches took the registry lock.
C10_LockOrder ==
    \A c \in Conns : \A i \in 1..Len(lockSeq), j \in 1..Len(lockSeq) :
        (i < j /\ Received(c, lockSeq[i]) /\ Received(c, lockSeq[j])) =>
            ReceivedBefore(c, lockSeq[i], lockSeq[j])

\* The dispatch invoked second took the lock first, and both subscribers of
\* the room received the second event before the first.
C10_Witness ==
    \E a \in Conns, b \in Conns, e1 \in Events, e2 \in Events :
        /\ a # b /\ e1 < e2
        /\ lockSeq = <<e2, e1>>
        /\ wlog[a] = << <<e2, TRUE>>, <<e1, TRUE>> >>
        /\ wlog[b] = << <<e2, TRUE>>, <<e1, TRUE>> >>

\* The connections that have registered under a room and not unregistered.
Subscribed(room) == {c \in Conns : connRoom[c] = room /\ pc[c] = "wait"}

\* C11: whatever the interleaving of the registrations, a room's set holds
\* exactly the handles that have registered under the room and have not
\* unregistered: none is lost and none is there twice or without registering.
C11_NoLostRegistration ==
    \A room \in Rooms :
        /\ SetOf(subscribers, room) = Subscribed(room)
        /\ Cardinality(SetOf(subscribers, room)) = Cardinality(Subscribed(room))

\* Every connection has registered under the same room while a dispatch was
\* waiting for the lock, none has unregistered, and the room's set holds them
\* all.
C11_Witness ==
    \E room \in Rooms :
        /\ \A c \in Conns : connRoom[c] = room /\ pc[c] = "wait" /\ ~ctxDone[c]
        /\ subscribers[room] = Conns
        /\ \E e \in Events : dpc[e] = "lock" /\ dRoom[e] = room

\* C12: while a send to one subscriber has not returned, a connection that
\* wants to register or to unregister can do so, and a dispatch to another
\* room can start.
C12_StalledSendBlocksNobody ==
    \A e \in Events :
        dpc[e] = "send" =>
            /\ \A c \in Conns : pc[c] = "lockReg" => ENABLED Register(c)
            /\ \A c \in Conns : (pc[c] = "wait" /\ ctxDone[c]) => ENABLED Unregister(c)
            /\ \A d \in Events :
                (dpc[d] = "lock" /\ dRoom[d] # dRoom[e]) => ENABLED NotifyLock(d)

\* The producing request that runs next.
NextRequest(e) == req[e] = "none" /\ \A b \in Events : b < e => req[b] # "none"

\* C13: a producing request whose checks pass can answer and return in every
\* state, also while a dispatch holds the lock, is inside a send or waits for
\* the lock; when it returns its own dispatch has not run yet; and nothing a
\* dispatch does afterwards, a failed send included, changes the outcome the
\* request has given.
C13_ProducerNeverWaits ==
    /\ [](\A e \in Events :
            NextRequest(e) => ENABLED (HandleRequest(e) /\ Dispatches(req'[e])))
    /\ [][\A e \in Events :
            /\ req[e] # "none" => (req'[e] = req[e] /\ reqRoom'[e] = reqRoom[e])
            /\ (req[e] = "none" /\ Dispatches(req'[e])) =>
                 (dpc'[e] = "lock" /\ wlog' = wlog /\ mu' = mu)
         ]_vars

\* The second request has answered and returned while the dispatch of the
\* first, which has already failed on one subscriber, is inside a send.
C13_Witness ==
    \E e1 \in Events, e2 \in Events, c \in Conns :
        /\ e1 < e2
        /\ req[e1] = "created" /\ req[e2] = "reacted"
        /\ dpc[e1] = "send" /\ mu = e1
        /\ wlog[c] = << <<e1, FALSE>> >>
        /\ dpc[e2] = "lock"
        /\ dRoom[e2] = dRoom[e1]

\* C14: a subscribed connection whose context is done (cancelled by a failed
\* dispatch, or ended with the request's own context) eventually runs its
\* unregister and its handle is eventually out of the registry.
C14_CancelledEventuallyUnregisters ==
    \A c \in Conns :
        (pc[c] = "wait" /\ ctxDone[c]) ~> (Unregistered(c) /\ RoomsOf(subscribers, c) = {})

\* The number of times the notifyClients of an event has taken the lock.
Runs(e) == Cardinality({i \in 1..Len(lockSeq) : lockSeq[i] = e})

\* The request passed every check and its store write succeeded (sendJSON at
\* lines 266, 328 was reached).
WriteSucceeded(e) == req[e] \in {"created", "reacted"}

\* C15: a producing request that has not run, or whose room check, message
\* id, body or store write failed, has no dispatch: no notifyClients exists,
\* takes the lock or sends for it.  A request whose write succeeded has one
\* notifyClients, tagged with the request's room, which runs at most once and
\* has run exactly once when it is past the lock.
C15_DispatchOnlyAfterWrite ==
    \A e \in Events :
        /\ ~WriteSucceeded(e) =>
            (dpc[e] = "none" /\ Runs(e) = 0 /\ \A c \in Conns : Attempts(e, c) = 0)
        /\ WriteSucceeded(e) =>
            /\ dpc[e] # "none"
            /\ dRoom[e] = reqRoom[e]
            /\ Runs(e) = IF dpc[e] = "lock" THEN 0 ELSE 1

\* One request failed at the store write and another succeeded, and the
\* dispatch of the second has sent to a subscriber and finished.
C15_Witness ==
    \E e1 \in Events, e2 \in Events, c \in Conns :
        /\ req[e1] = "storeErr"
        /\ req[e2] = "reacted"
        /\ dpc[e2] = "done"
        /\ Attempts(e2, c) = 1

\* C16: once the dispatch of an event has finished, no send of that event is
\* attempted any more, so a handle that registers afterwards never gets it:
\* the handles an event was ever sent to were registered when its dispatch
\* took the lock.
C16_NoReplay ==
    /\ [](\A e \in Events, c \in Conns : Attempts(e, c) > 0 => c \in dSnap[e])
    /\ [][\A e \in Events :
            dpc[e] = "done" =>
                /\ dpc'[e] = "done"
                /\ \A c \in Conns :
                    Cardinality({i \in 1..Len(wlog'[c]) : wlog'[c][i][1] = e}) = Attempts(e, c)
         ]_vars

\* A dispatch sent its event to the one subscriber of its room and finished;
\* a second handle registered under the room afterwards and has received
\* nothing.
C16_Witness ==
    \E e \in Events, a \in Conns, b \in Conns :
        /\ dpc[e] = "done"
        /\ dSnap[e] = {a}
        /\ wlog[a] = << <<e, TRUE>> >>
        /\ a # b
        /\ connRoom[b] = dRoom[e]
        /\ b \in SetOf(subscribers, dRoom[e])
        /\ wlog[b] = <<>>

\* The dispatches that are inside a WriteJSON on a connection.
Sending(c) == {e \in Events : dpc[e] = "send" /\ dCur[e] = c}

\* C17: at most one send is in progress on a connection at any time, and the
\* dispatch that makes it holds the lock.
C17_OneSendPerConnection ==
    \A c \in Conns :
        /\ Cardinality(Sending(c)) <= 1
        /\ \A e \in Sending(c) : mu = e

\* One dispatch is inside a send on a connection while a second dispatch to
\* the same room waits for the lock.
C17_Witness ==
    \E e1 \in Events, e2 \in Events, c \in Conns :
        /\ Sending(c) = {e1}
        /\ dpc[e2] = "lock"
        /\ dRoom[e2] = dRoom[e1]

\* The notifyClients of the event is between its Lock and its Unlock.
Holding(e) == dpc[e] \in {"run", "send"}

\* C18: from the moment a dispatch takes the lock until it returns, no step
\* changes the registry and the room's set is the one it found; the handles
\* it has sent to when it returns are exactly that set.
C18_DispatchAtomic ==
    /\ [](\A e \in Events :
            /\ Holding(e) =>
                /\ SetOf(subscribers, dRoom[e]) = dSnap[e]
                /\ dVisited[e] \subseteq dSnap[e]
            /\ dpc[e] = "done" => {c \in Conns : Attempts(e, c) > 0} = dSnap[e])
    /\ [][\A e \in Events : Holding(e) => subscribers' = subscribers]_vars

\* A dispatch to a room of two subscribers has failed on one, which is now
\* waiting for the lock to unregister, and is inside the send on the other,
\* while a further connection waits for the lock.
C18_Witness ==
    \E e \in Events, a \in Conns, b \in Conns :
        /\ a # b
        /\ dpc[e] = "send" /\ dCur[e] = b
        /\ dSnap[e] = {a, b}
        /\ cancels[a] = <<e>>
        /\ pc[a] = "wait" /\ ctxDone[a]
        /\ subscribers[dRoom[e]] = {a, b}

\* C19: if every send returns, every dispatch that was started gets the lock,
\* finishes and releases it, also when it has cancelled a handle whose
\* lifecycle is waiting for the lock; every connection waiting to register
\* or, once cancelled, to unregister gets the lock too.
C19_NoDeadlock ==
    /\ \A e \in Events : (dpc[e] \in {"lock", "run", "send"}) ~> (dpc[e] = "done" /\ mu # e)
    /\ \A c \in Conns : (pc[c] = "lockReg") ~> (pc[c] = "wait")
    /\ \A c \in Conns : (pc[c] = "wait" /\ ctxDone[c]) ~> (pc[c] = "closed")

\* A dispatch holds the lock and goes on after it has cancelled a handle
\* whose send failed; the handle's lifecycle waits for the lock to unregister.
C19_Witness ==
    \E e \in Events, c \in Conns :
        /\ mu = e
        /\ Holding(e)
        /\ cancels[c] = <<e>>
        /\ pc[c] = "wait" /\ ctxDone[c]
        /\ c \in SetOf(subscribers, connRoom[c])

====
